---- MODULE Spec2Model ----
(***************************************************************************)
(* Model of backend/app/step1_parse/pdfParser.py: the heading-size         *)
(* classifier infer_heading_sizes and the section extractor                *)
(* extract_everything, as a staged state machine over one document.        *)
(*                                                                         *)
(* A text is a sequence of one-character strings.  A span is a record      *)
(* [text, size, y] (y is bbox[1]), a line is [spans], a block is           *)
(* [type, lines], a page is a sequence of blocks and a document a          *)
(* sequence of pages.  Font sizes and coordinates are integers.            *)
(***************************************************************************)
EXTENDS Integers, Sequences, FiniteSets, TLC

VARIABLES
    doc,            \* the opened document: sequence of pages
    hfc,            \* heading_font_count: {} for None, {k} for the integer k
    pc,             \* position inside extract_everything
    font_sizes,     \* list built by step 1
    pages_blocks,   \* list of <<page_num, blocks>> built by step 1
    heading_sizes,  \* set built by step 2
    headings,       \* list of heading candidates built by step 3
    flat_blocks,    \* list of <<page_num, block, y0>> built by step 4
    content,        \* list of sections built by step 5
    members,        \* per section, the flat_blocks indices whose text was appended
    api_key,        \* whether GOOGLE_API_KEY is set
    called,         \* the collaborators that have called the model service
    summary_results,    \* what run_summarization returned
    tasks,          \* per section, the state of its process_pdf_section coroutine
    results,        \* per section, what its coroutine returned
    finished,       \* the sections in the order their model calls completed
    analysis_results,   \* what analyze_pdf_sections returned
    components_results  \* what parse_evaluation_components returned

parserVars == <<doc, hfc, font_sizes, pages_blocks, heading_sizes, headings,
                flat_blocks, members>>

downVars == <<api_key, called, summary_results, tasks, results, finished,
              analysis_results, components_results>>

vars == <<parserVars, pc, content, downVars>>

(***************************************************************************)
(* Bounds of the explored inputs.                                          *)
(***************************************************************************)
MaxPages == 2
MaxBlocks == 3
MaxHFC == 1
MaxSizes == 5
MaxFloor == 3
MaxTextLen == 3
MaxSections == 3

(***************************************************************************)
(* Characters and the str methods the extractor uses.                      *)
(***************************************************************************)
Digits == {"0", "1", "2", "3", "4", "5", "6", "7", "8", "9"}
UpperChars == {"A", "B", "C", "D", "E", "F", "G", "H", "I", "J", "K", "L", "M",
               "N", "O", "P", "Q", "R", "S", "T", "U", "V", "W", "X", "Y", "Z"}
LowerChars == {"a", "b", "c", "d", "e", "f", "g", "h", "i", "j", "k", "l", "m",
               "n", "o", "p", "q", "r", "s", "t", "u", "v", "w", "x", "y", "z"}
Whitespace == {" ", "\n", "\t"}

Range(s) == {s[i] : i \in DOMAIN s}

RECURSIVE LStrip(_)
LStrip(t) ==
    IF t = <<>> THEN <<>>
    ELSE IF Head(t) \in Whitespace THEN LStrip(Tail(t)) ELSE t

RECURSIVE RStrip(_)
RStrip(t) ==
    IF t = <<>> THEN <<>>
    ELSE IF t[Len(t)] \in Whitespace THEN RStrip(SubSeq(t, 1, Len(t) - 1)) ELSE t

\* str.strip()
Strip(t) == RStrip(LStrip(t))

\* length of the longest prefix of t made of characters of S
RECURSIVE RunLen(_, _)
RunLen(t, S) ==
    IF t = <<>> \/ Head(t) \notin S THEN 0 ELSE 1 + RunLen(Tail(t), S)

\* num_heading_re.match(text) for ^\d+(?:[\.\d]+)?\s+.*
NumHeadingMatch(t) ==
    /\ t # <<>>
    /\ t[1] \in Digits
    /\ LET k == RunLen(t, Digits \cup {"."})
       IN  k < Len(t) /\ t[k + 1] \in Whitespace

\* str.isupper(): at least one cased character and no lower-case one
IsUpper(t) ==
    /\ \E i \in DOMAIN t : t[i] \in UpperChars
    /\ \A i \in DOMAIN t : t[i] \notin LowerChars

\* str.istitle(): upper-case only after an uncased character, lower-case only
\* after a cased one, and at least one cased character
IsTitle(t) ==
    /\ \E i \in DOMAIN t : t[i] \in UpperChars \cup LowerChars
    /\ \A i \in DOMAIN t :
         LET prevCased == i > 1 /\ t[i - 1] \in UpperChars \cup LowerChars
         IN  /\ t[i] \in UpperChars => ~prevCased
             /\ t[i] \in LowerChars => prevCased

\* len(text.split())
WordCount(t) ==
    Cardinality({i \in DOMAIN t :
                   t[i] \notin Whitespace /\ (i = 1 \/ t[i - 1] \in Whitespace)})

\* sep.join(parts) for a one-character separator
RECURSIVE Join(_, _)
Join(sep, parts) ==
    IF parts = <<>> THEN <<>>
    ELSE IF Len(parts) = 1 THEN parts[1]
    ELSE parts[1] \o <<sep>> \o Join(sep, Tail(parts))

\* "".join(parts)
RECURSIVE Concat(_)
Concat(parts) ==
    IF parts = <<>> THEN <<>> ELSE Head(parts) \o Concat(Tail(parts))

(***************************************************************************)
(* infer_heading_sizes                                                     *)
(***************************************************************************)
SetMax(S) == CHOOSE m \in S : \A x \in S : x <= m

\* sorted(set(font_sizes), reverse=True)
RECURSIVE SortedDesc(_)
SortedDesc(S) ==
    IF S = {} THEN <<>>
    ELSE LET m == SetMax(S) IN <<m>> \o SortedDesc(S \ {m})

\* variant of MaxByGap: the last of several equally large gaps wins
RECURSIVE MaxByGapLast(_)
MaxByGapLast(diffs) ==
    IF Len(diffs) = 1 THEN diffs[1]
    ELSE LET best == MaxByGapLast(SubSeq(diffs, 1, Len(diffs) - 1))
             last == diffs[Len(diffs)]
         IN  IF last[1] >= best[1] THEN last ELSE best

\* max(diffs, key=lambda x: x[0]) on a non-empty list, a later element
\* replacing the best one only when its key is strictly larger
RECURSIVE MaxByGap(_)
MaxByGap(diffs) ==
    IF Len(diffs) = 1 THEN diffs[1]
    ELSE LET best == MaxByGap(SubSeq(diffs, 1, Len(diffs) - 1))
             last == diffs[Len(diffs)]
         IN  IF last[1] > best[1] THEN last ELSE best

\* variant of TrivialSizes: nothing is heading-sized
TrivialSizesNone(unique_sizes) == {}

\* the early return for fewer than two distinct sizes
TrivialSizes(unique_sizes) == Range(unique_sizes)

infer_heading_sizes(sizes) ==
    LET unique_sizes == SortedDesc(Range(sizes))
    IN  IF Len(unique_sizes) < 2 THEN TrivialSizes(unique_sizes)
        ELSE LET diffs == [i \in 1 .. Len(unique_sizes) - 1 |->
                             <<unique_sizes[i] - unique_sizes[i + 1], i>>]
                 idx == MaxByGap(diffs)[2]
             IN  {unique_sizes[j] : j \in 1 .. idx}

(***************************************************************************)
(* Documents.                                                              *)
(***************************************************************************)
Sp(text, size, y) == [text |-> text, size |-> size, y |-> y]
Ln(spans) == [spans |-> spans]
Blk(lines) == [type |-> 0, lines |-> lines]

\* a lower-case paragraph at body size
BodyBlock == Blk(<<Ln(<<Sp(<<"a", "b">>, 10, 50)>>)>>)
\* a lower-case line at a large size
BigBlock == Blk(<<Ln(<<Sp(<<"c", "d">>, 16, 40)>>)>>)
\* a numbered line at body size
NumberedBlock == Blk(<<Ln(<<Sp(<<"1", " ", "a">>, 10, 40)>>)>>)
\* a block of two lines, the first one large
TwoLineBlock == Blk(<<Ln(<<Sp(<<"A", "b">>, 16, 40)>>), Ln(<<Sp(<<"c", "d">>, 10, 50)>>)>>)
\* a large block whose text is white space, after a line without spans
BlankBlock == Blk(<<Ln(<<>>), Ln(<<Sp(<<" ">>, 16, 50)>>)>>)
\* one line of two spans of different sizes
MixedLineBlock == Blk(<<Ln(<<Sp(<<"x">>, 10, 50), Sp(<<"Y">>, 12, 40)>>)>>)
\* a text block whose only line has no spans
NoSpanBlock == Blk(<<Ln(<<>>)>>)
\* an image block
ImageBlock == [type |-> 1, lines |-> <<>>]

BlockPool == {BodyBlock, BigBlock, NumberedBlock, TwoLineBlock, BlankBlock,
              MixedLineBlock, NoSpanBlock, ImageBlock}

\* the blocks of flat that fall on page p when the pages hold lens[1], lens[2], ... blocks
RECURSIVE Offset(_, _)
Offset(lens, p) == IF p = 1 THEN 0 ELSE lens[p - 1] + Offset(lens, p - 1)

SplitPages(flat, lens) ==
    [p \in DOMAIN lens |-> SubSeq(flat, Offset(lens, p) + 1, Offset(lens, p) + lens[p])]

RECURSIVE SumSeq(_)
SumSeq(s) == IF s = <<>> THEN 0 ELSE Head(s) + SumSeq(Tail(s))

HFCValues == {{}} \cup {{k} : k \in 0 .. MaxHFC}

(***************************************************************************)
(* The two-page document of the end-to-end scenario.                       *)
(***************************************************************************)
TxtIntroduction == <<"1", ".", " ", "I", "n", "t", "r", "o", "d", "u", "c", "t", "i", "o", "n">>
TxtIntroBody == <<"I", "n", "t", "r", "o", " ", "b", "o", "d", "y", ".">>
TxtPricing == <<"2", ".", " ", "P", "r", "i", "c", "i", "n", "g">>
TxtPricingBody == <<"P", "r", "i", "c", "i", "n", "g", " ", "b", "o", "d", "y", ".">>

ScenarioDoc ==
    << << Blk(<<Ln(<<Sp(TxtIntroduction, 16, 50)>>)>>),
          Blk(<<Ln(<<Sp(TxtIntroBody, 10, 80)>>)>>) >>,
       << Blk(<<Ln(<<Sp(TxtPricing, 16, 40)>>)>>),
          Blk(<<Ln(<<Sp(TxtPricingBody, 10, 70)>>)>>) >> >>

(***************************************************************************)
(* extract_everything                                                      *)
(***************************************************************************)
\* [s for line in block["lines"] for s in line.get("spans", [])]
BlockSpans(block) == Concat([i \in DOMAIN block.lines |-> block.lines[i].spans])

\* max(spans, key=lambda s: s["size"])["size"]
MaxSize(spans) == SetMax({spans[i].size : i \in DOMAIN spans})

\* min(s["bbox"][1] for s in spans)
MinY(spans) ==
    CHOOSE m \in {spans[i].y : i \in DOMAIN spans} : \A i \in DOMAIN spans : m <= spans[i].y

\* "".join(s["text"] for s in spans).strip()
BlockText(spans) == Strip(Concat([i \in DOMAIN spans |-> spans[i].text]))

RECURSIVE Filter(_, _)
Filter(s, keep) ==
    IF s = <<>> THEN <<>>
    ELSE (IF Head(s) \in keep THEN <<Head(s)>> ELSE <<>>) \o Filter(Tail(s), keep)

\* the blocks step 1 keeps from one page
CollectedBlocks(blocks) ==
    Filter(blocks, {b \in Range(blocks) : b.type = 0 /\ b.lines # <<>>})

\* variant of LineSizes: a line without spans counts as size 0
LineSizesEmptyAsZero(block) ==
    [i \in DOMAIN block.lines |->
        IF block.lines[i].spans = <<>> THEN 0 ELSE MaxSize(block.lines[i].spans)]

\* variant of LineSizes: one entry per span instead of one per line
LineSizesAllSpans(block) ==
    LET spans == BlockSpans(block) IN [i \in DOMAIN spans |-> spans[i].size]

\* the sizes step 1 appends for one block
LineSizes(block) ==
    LET withSpans == Filter(block.lines, {l \in Range(block.lines) : l.spans # <<>>})
    IN  [i \in DOMAIN withSpans |-> MaxSize(withSpans[i].spans)]

\* the sizes step 1 appends for the whole document
CollectedSizes(d) ==
    Concat([p \in DOMAIN d |->
              LET kept == CollectedBlocks(d[p])
              IN  Concat([i \in DOMAIN kept |-> LineSizes(kept[i])])])

\* variant of ForcedSizes: one size fewer than asked for
ForcedSizesShort(sizes, k) ==
    LET sorted_sizes == SortedDesc(Range(sizes))
    IN  {sorted_sizes[j] : j \in 1 .. (IF k - 1 < Len(sorted_sizes) THEN k - 1 ELSE Len(sorted_sizes))}

\* step 2, lines 78-81: the forced floor
ForcedSizes(sizes, k) ==
    LET sorted_sizes == SortedDesc(Range(sizes))
    IN  {sorted_sizes[j] : j \in 1 .. (IF k < Len(sorted_sizes) THEN k ELSE Len(sorted_sizes))}

\* variant of is_heading: the size rule left out
is_heading_text_only(size, text, sizes) ==
    \/ NumHeadingMatch(text)
    \/ IsUpper(text)
    \/ (WordCount(text) <= 5 /\ IsTitle(text))

\* variant of is_heading: a title-case text must have fewer than five words
is_heading_four_words(size, text, sizes) ==
    \/ size \in sizes
    \/ NumHeadingMatch(text)
    \/ IsUpper(text)
    \/ (WordCount(text) < 5 /\ IsTitle(text))

\* the heuristic of lines 102-107
is_heading(size, text, sizes) ==
    \/ size \in sizes
    \/ NumHeadingMatch(text)
    \/ IsUpper(text)
    \/ (WordCount(text) <= 5 /\ IsTitle(text))

\* step 3 on one page: the candidates of blocks[i..], in block order; id is
\* the <<page, index>> of the originating block in pages_blocks
RECURSIVE PageHeadings(_, _, _, _)
PageHeadings(page_num, blocks, i, sizes) ==
    IF i > Len(blocks) THEN <<>>
    ELSE LET spans == BlockSpans(blocks[i])
             rest == PageHeadings(page_num, blocks, i + 1, sizes)
         IN  IF spans = <<>> THEN rest
             ELSE IF BlockText(spans) = <<>> THEN rest
             ELSE IF ~is_heading(MaxSize(spans), BlockText(spans), sizes) THEN rest
             ELSE <<[page |-> page_num, y0 |-> MinY(spans),
                     text |-> BlockText(spans), id |-> <<page_num, i>>]>> \o rest

\* step 4 on one page
RECURSIVE PageFlat(_, _, _)
PageFlat(page_num, blocks, i) ==
    IF i > Len(blocks) THEN <<>>
    ELSE LET spans == BlockSpans(blocks[i])
             rest == PageFlat(page_num, blocks, i + 1)
         IN  IF spans = <<>> THEN rest
             ELSE <<[page |-> page_num, block |-> blocks[i],
                     y0 |-> MinY(spans), id |-> <<page_num, i>>]>> \o rest

\* variant of PosLess: y0 compared before the page
PosLessYFirst(a, b) == a.y0 < b.y0 \/ (a.y0 = b.y0 /\ a.page < b.page)

\* (page, y0) compared as Python compares the key tuples
PosLess(a, b) == a.page < b.page \/ (a.page = b.page /\ a.y0 < b.y0)

\* variant of Insert: an element goes before the elements equal to it
RECURSIVE InsertUnstable(_, _)
InsertUnstable(sorted, x) ==
    IF sorted = <<>> THEN <<x>>
    ELSE IF PosLess(Head(sorted), x) THEN <<Head(sorted)>> \o InsertUnstable(Tail(sorted), x)
    ELSE <<x>> \o sorted

\* one step of list.sort(key=(page, y0)): x, collected after the elements of
\* sorted, goes behind every element not greater than it (the sort is stable)
RECURSIVE Insert(_, _)
Insert(sorted, x) ==
    IF sorted = <<>> THEN <<x>>
    ELSE IF PosLess(x, Head(sorted)) THEN <<x>> \o sorted
    ELSE <<Head(sorted)>> \o Insert(Tail(sorted), x)

\* variant of SortByPos: the list is left in collection order
NoSort(s) == s

\* list.sort(key=lambda h: (h["page"], h["y0"]))
RECURSIVE SortByPos(_)
SortByPos(s) ==
    IF s = <<>> THEN <<>>
    ELSE Insert(SortByPos(SubSeq(s, 1, Len(s) - 1)), s[Len(s)])

\* variant of InSection: the start boundary is exclusive
InSectionOpenStart(hs, idx, fb) ==
    /\ (fb.page > hs[idx].page \/ (fb.page = hs[idx].page /\ fb.y0 > hs[idx].y0))
    /\ \/ idx + 1 > Len(hs)
       \/ fb.page < hs[idx + 1].page
       \/ (fb.page = hs[idx + 1].page /\ fb.y0 < hs[idx + 1].y0)

\* variant of InSection: the end boundary is inclusive
InSectionClosed(hs, idx, fb) ==
    /\ (fb.page > hs[idx].page \/ (fb.page = hs[idx].page /\ fb.y0 >= hs[idx].y0))
    /\ \/ idx + 1 > Len(hs)
       \/ fb.page < hs[idx + 1].page
       \/ (fb.page = hs[idx + 1].page /\ fb.y0 <= hs[idx + 1].y0)

\* the membership test of lines 142-143 for heading idx; the last heading's
\* end is (inf, inf), below which every page lies
InSection(hs, idx, fb) ==
    /\ (fb.page > hs[idx].page \/ (fb.page = hs[idx].page /\ fb.y0 >= hs[idx].y0))
    /\ \/ idx + 1 > Len(hs)
       \/ fb.page < hs[idx + 1].page
       \/ (fb.page = hs[idx + 1].page /\ fb.y0 < hs[idx + 1].y0)

\* the flat_blocks indices appended to texts for heading idx, in loop order
RECURSIVE SectionMembers(_, _, _, _)
SectionMembers(hs, idx, fbs, j) ==
    IF j > Len(fbs) THEN <<>>
    ELSE (IF InSection(hs, idx, fbs[j]) THEN <<j>> ELSE <<>>)
         \o SectionMembers(hs, idx, fbs, j + 1)

\* lines 145-146: the block's lines joined by line breaks
BlockLinesText(block) ==
    Join("\n", [i \in DOMAIN block.lines |->
                  Concat([k \in DOMAIN block.lines[i].spans |-> block.lines[i].spans[k].text])])

\* line 148
SectionBody(fbs, mem) ==
    Strip(Join("\n", [m \in DOMAIN mem |-> BlockLinesText(fbs[mem[m]].block)]))

(***************************************************************************)
(* The state machine: one call of extract_everything, stage by stage.      *)
(***************************************************************************)
\* the collaborators downstream of the extractor have not run
DownIdle ==
    /\ api_key = FALSE
    /\ called = {}
    /\ summary_results = [success |-> FALSE, summary |-> "", message |-> "not run"]
    /\ tasks = <<>>
    /\ results = <<>>
    /\ finished = <<>>
    /\ analysis_results = [status |-> "not run"]
    /\ components_results = [success |-> FALSE, message |-> "not run", data |-> [kind |-> "not run"]]

\* the page lengths of the documents explored: at most MaxPages pages holding
\* at most MaxBlocks blocks together
PageLens ==
    UNION {{l \in [1 .. n -> 0 .. MaxBlocks] : SumSeq(l) <= MaxBlocks} : n \in 0 .. MaxPages}

Init ==
    /\ \/ doc = ScenarioDoc
       \/ \E lens \in PageLens : \E flat \in [1 .. SumSeq(lens) -> BlockPool] :
            doc = SplitPages(flat, lens)
    /\ hfc \in HFCValues
    /\ pc = "collect"
    /\ font_sizes = <<>>
    /\ pages_blocks = <<>>
    /\ heading_sizes = {}
    /\ headings = <<>>
    /\ flat_blocks = <<>>
    /\ content = <<>>
    /\ members = <<>>
    /\ DownIdle

\* step 1, lines 55-73
Collect ==
    /\ pc = "collect"
    /\ font_sizes' = CollectedSizes(doc)
    /\ pages_blocks' = [p \in DOMAIN doc |-> <<p, CollectedBlocks(doc[p])>>]
    /\ pc' = "infer"
    /\ UNCHANGED <<doc, hfc, heading_sizes, headings, flat_blocks, content, members>>
    /\ UNCHANGED downVars

\* step 2, line 76
Infer ==
    /\ pc = "infer"
    /\ heading_sizes' = infer_heading_sizes(font_sizes)
    /\ pc' = "force"
    /\ UNCHANGED <<doc, hfc, font_sizes, pages_blocks, headings, flat_blocks, content, members>>
    /\ UNCHANGED downVars

\* step 2, lines 78-81: None and 0 are both falsy
Force ==
    /\ pc = "force"
    /\ heading_sizes' =
         IF \E k \in hfc : k # 0
         THEN heading_sizes \cup UNION {ForcedSizes(font_sizes, k) : k \in hfc}
         ELSE heading_sizes
    /\ pc' = "detect"
    /\ UNCHANGED <<doc, hfc, font_sizes, pages_blocks, headings, flat_blocks, content, members>>
    /\ UNCHANGED downVars

\* step 3, lines 87-116, the sort included
Detect ==
    /\ pc = "detect"
    /\ headings' = SortByPos(Concat([p \in DOMAIN pages_blocks |->
                       PageHeadings(pages_blocks[p][1], pages_blocks[p][2], 1, heading_sizes)]))
    /\ pc' = "flatten"
    /\ UNCHANGED <<doc, hfc, font_sizes, pages_blocks, heading_sizes, flat_blocks, content, members>>
    /\ UNCHANGED downVars

\* step 4, lines 119-127, the sort included
Flatten ==
    /\ pc = "flatten"
    /\ flat_blocks' = SortByPos(Concat([p \in DOMAIN pages_blocks |->
                          PageFlat(pages_blocks[p][1], pages_blocks[p][2], 1)]))
    /\ pc' = "group"
    /\ UNCHANGED <<doc, hfc, font_sizes, pages_blocks, heading_sizes, headings, content, members>>
    /\ UNCHANGED downVars

\* step 5, lines 130-151
Group ==
    /\ pc = "group"
    /\ members' = [idx \in DOMAIN headings |-> SectionMembers(headings, idx, flat_blocks, 1)]
    /\ content' = [idx \in DOMAIN headings |->
                     [section |-> headings[idx].text,
                      text |-> SectionBody(flat_blocks,
                                           SectionMembers(headings, idx, flat_blocks, 1))]]
    /\ pc' = "done"
    /\ UNCHANGED <<doc, hfc, font_sizes, pages_blocks, heading_sizes, headings, flat_blocks>>
    /\ UNCHANGED downVars

Next == Collect \/ Infer \/ Force \/ Detect \/ Flatten \/ Group

Spec == Init /\ [][Next]_vars

(***************************************************************************)
(* infer_heading_sizes and the forced floor on arbitrary size lists.       *)
(***************************************************************************)
SizePool == {10, 11, 12, 18, 20}

SizeLists == UNION {[1 .. n -> SizePool] : n \in 0 .. MaxSizes}

\* heading_font_count absent, or any count up to MaxFloor
FloorValues == {{}} \cup {{k} : k \in 0 .. MaxFloor}

InitSizes ==
    /\ doc = <<>>
    /\ hfc \in FloorValues
    /\ pc = "infer"
    /\ font_sizes \in SizeLists
    /\ pages_blocks = <<>>
    /\ heading_sizes = {}
    /\ headings = <<>>
    /\ flat_blocks = <<>>
    /\ content = <<>>
    /\ members = <<>>
    /\ DownIdle

NextSizes == Infer \/ Force

SpecSizes == InitSizes /\ [][NextSizes]_vars

(***************************************************************************)
(* Heading detection on one probe block of arbitrary short text, alone on  *)
(* its page or next to a large or a body-sized block.                      *)
(***************************************************************************)
TxtScope == <<"1", ".", "2", " ", "S", "c", "o", "p", "e", " ", "o", "f", " ", "W", "o", "r", "k">>
TxtFiveWords == <<"A", " ", "B", "b", " ", "C", " ", "D", " ", "E">>
TxtSixWords == <<"A", " ", "B", "b", " ", "C", " ", "D", " ", "E", " ", "F">>

ProbeChars == {"1", ".", " ", "a", "A"}

ProbeTexts ==
    UNION {[1 .. n -> ProbeChars] : n \in 0 .. MaxTextLen}
    \cup {TxtScope, TxtFiveWords, TxtSixWords}

ProbeBlock(text, size) == Blk(<<Ln(<<Sp(text, size, 50)>>)>>)

InitDetect ==
    /\ \E text \in ProbeTexts : \E size \in {10, 16} :
         \/ doc = << <<ProbeBlock(text, size)>> >>
         \/ doc = << <<BigBlock, ProbeBlock(text, size)>> >>
         \/ doc = << <<BodyBlock, ProbeBlock(text, size)>> >>
    /\ hfc \in HFCValues
    /\ pc = "collect"
    /\ font_sizes = <<>>
    /\ pages_blocks = <<>>
    /\ heading_sizes = {}
    /\ headings = <<>>
    /\ flat_blocks = <<>>
    /\ content = <<>>
    /\ members = <<>>
    /\ DownIdle

SpecDetect == InitDetect /\ [][Next]_vars

(***************************************************************************)
(* The collaborators downstream of the extractor, called as the            *)
(* /parse-with-summary/ endpoint of main.py calls them: run_summarization, *)
(* analyze_pdf_sections, parse_evaluation_components.  The model service   *)
(* is the environment: each call ends in one of the outcomes it can have.  *)
(***************************************************************************)
SectionPool == {[section |-> <<"A">>, text |-> <<"A", "\n", "a">>],
                [section |-> <<"B">>, text |-> <<>>]}

ContentLists == UNION {[1 .. n -> SectionPool] : n \in 0 .. MaxSections}

\* filter_sections.py, the returns of process_pdf_section
SectionResult(section, meets, analysis) ==
    [section |-> section.section, content |-> section.text,
     meets_criteria |-> meets, analysis |-> analysis]

\* the analysis results of one matching section, as a caller of
\* parse_evaluation_components alone hands them over
DirectAnalysis(s) ==
    LET r == SectionResult(s, TRUE, "yes")
    IN  [status |-> "success", total_sections |-> 1, matching_count |-> 1,
         all_sections |-> <<r>>, matching_sections |-> <<r>>]

\* the endpoint after extract_everything has returned, or
\* parse_evaluation_components called on its own
InitDown ==
    /\ doc = <<>>
    /\ hfc = {}
    /\ font_sizes = <<>>
    /\ pages_blocks = <<>>
    /\ heading_sizes = {}
    /\ headings = <<>>
    /\ flat_blocks = <<>>
    /\ members = <<>>
    /\ api_key \in BOOLEAN
    /\ called = {}
    /\ summary_results = [success |-> FALSE, summary |-> "", message |-> "not run"]
    /\ tasks = <<>>
    /\ results = <<>>
    /\ finished = <<>>
    /\ \/ /\ pc = "summarize"
          /\ content \in ContentLists
          /\ analysis_results = [status |-> "not run"]
       \/ /\ pc = "evaluate"
          /\ \E s \in SectionPool :
               /\ content = <<s>>
               /\ analysis_results = DirectAnalysis(s)
    /\ components_results = [success |-> FALSE, message |-> "not run", data |-> [kind |-> "not run"]]

\* summarize.py, summarize_relevant_content: reply is what generate_content did
SummaryOf(sections, key, reply) ==
    IF sections = <<>>
    THEN [success |-> FALSE, summary |-> "",
          message |-> "No extracted content provided for summarization."]
    ELSE IF ~key
    THEN [success |-> FALSE, summary |-> "",
          message |-> "GOOGLE_API_KEY environment variable not set."]
    ELSE IF reply = "raised"
    THEN [success |-> FALSE, summary |-> "", message |-> "Error during summarization"]
    ELSE IF reply = "empty"
    THEN [success |-> FALSE, summary |-> "", message |-> "LLM returned an empty response."]
    ELSE [success |-> TRUE, summary |-> "text", message |-> ""]

\* main.py line 99
Summarize ==
    /\ pc = "summarize"
    /\ \E reply \in {"text", "empty", "raised"} :
         summary_results' = SummaryOf(content, api_key, reply)
    /\ called' = IF content # <<>> /\ api_key THEN called \cup {"summarizer"} ELSE called
    /\ pc' = "filter"
    /\ UNCHANGED <<parserVars, content, api_key, tasks, results, finished,
                   analysis_results, components_results>>

\* main.py line 102 up to the await of line 134: with no section the call
\* returns at once; otherwise one coroutine per section runs to its first
\* await, or to its return when the key is missing
FilterStart ==
    /\ pc = "filter"
    /\ IF content = <<>>
       THEN /\ analysis_results' = [status |-> "error",
                                    message |-> "No sections found in the parsed PDF data",
                                    matching_sections |-> <<>>]
            /\ pc' = "attach"
            /\ UNCHANGED <<tasks, results, called>>
       ELSE /\ tasks' = [i \in DOMAIN content |-> IF api_key THEN "waiting" ELSE "returned"]
            /\ results' = [i \in DOMAIN content |->
                             SectionResult(content[i], FALSE,
                                           IF api_key THEN "pending" ELSE "Error: no key")]
            /\ called' = IF api_key THEN called \cup {"filter"} ELSE called
            /\ pc' = "gather"
            /\ UNCHANGED analysis_results
    /\ UNCHANGED <<parserVars, content, api_key, summary_results, finished, components_results>>

\* lines 89-111 for one section: the model call of section i ends, with a
\* text holding yes or true, another text, or an exception
TaskComplete ==
    /\ pc = "gather"
    /\ \E i \in DOMAIN tasks : \E reply \in {"yes", "no", "raised"} :
         /\ tasks[i] = "waiting"
         /\ tasks' = [tasks EXCEPT ![i] = "returned"]
         /\ results' = [results EXCEPT ![i] =
                          SectionResult(content[i], reply = "yes",
                                        IF reply = "raised" THEN "Error: raised" ELSE reply)]
         /\ finished' = Append(finished, i)
    /\ UNCHANGED <<parserVars, pc, content, api_key, called, summary_results,
                   analysis_results, components_results>>

\* variant of Gathered: the results in the order the calls completed
GatheredAsCompleted(res, done) ==
    [k \in DOMAIN res |-> IF k \in DOMAIN done THEN res[done[k]] ELSE res[k]]

\* asyncio.gather(*tasks): the results in the order of the tasks
Gathered(res, done) == res

\* line 137
Matching(all) ==
    LET keep == {k \in DOMAIN all : all[k].meets_criteria}
    IN  Filter(all, {all[k] : k \in keep})

\* lines 134-145, once every coroutine has returned
Gather ==
    /\ pc = "gather"
    /\ \A i \in DOMAIN tasks : tasks[i] = "returned"
    /\ LET all == Gathered(results, finished)
       IN  analysis_results' = [status |-> "success",
                                total_sections |-> Len(content),
                                matching_count |-> Len(Matching(all)),
                                all_sections |-> all,
                                matching_sections |-> Matching(all)]
    /\ pc' = "attach"
    /\ UNCHANGED <<parserVars, content, api_key, called, summary_results, tasks, results,
                   finished, components_results>>

\* main.py line 106
AttachSummary ==
    /\ pc = "attach"
    /\ analysis_results' = analysis_results @@ ("evaluation_summary" :> summary_results.summary)
    /\ pc' = "evaluate"
    /\ UNCHANGED <<parserVars, content, api_key, called, summary_results, tasks, results,
                   finished, components_results>>

None == [kind |-> "None"]

Failure(message) == [success |-> FALSE, message |-> message, data |-> None]

\* what the model call of evaluate.py lines 213-219 can end in: the wait
\* times out, the call raises, or a text comes back; a text is described by
\* what the checks of lines 224-249 look at
VariablesKinds == {"absent", "other", "dict_empty", "dict_nonempty"}
RulesKinds == {"absent", "other", "list_empty", "list_nonempty"}

Reply(kind, ends_brace, json, variables, rules) ==
    [kind |-> kind, ends_brace |-> ends_brace, json |-> json,
     variables |-> variables, rules |-> rules]

\* a text that json.loads accepts and that ends with a closing brace once
\* trimmed is an object, so parsed_data is described by its two keys
Replies ==
    {Reply("timeout", FALSE, "invalid", "absent", "absent"),
     Reply("raised", FALSE, "invalid", "absent", "absent"),
     Reply("text", FALSE, "invalid", "absent", "absent"),
     Reply("text", TRUE, "invalid", "absent", "absent")}
    \cup {Reply("text", TRUE, "object", v, r) : v \in VariablesKinds, r \in RulesKinds}

\* variant of Validated: the check of lines 243-249 left out
ValidatedAllowEmpty(reply) ==
    IF reply.variables \in {"dict_empty", "dict_nonempty"}
       /\ reply.rules \in {"list_empty", "list_nonempty"}
    THEN [success |-> TRUE, message |-> "",
          data |-> [kind |-> "object", variables |-> reply.variables, rules |-> reply.rules]]
    ELSE Failure("LLM response is valid JSON but lacks the required keys")

\* lines 237-263, for a parsed object
Validated(reply) ==
    IF reply.variables \in {"dict_empty", "dict_nonempty"}
       /\ reply.rules \in {"list_empty", "list_nonempty"}
    THEN IF reply.variables = "dict_empty" /\ reply.rules = "list_empty"
         THEN Failure("LLM returned empty variables and rules")
         ELSE [success |-> TRUE, message |-> "",
               data |-> [kind |-> "object", variables |-> reply.variables,
                         rules |-> reply.rules]]
    ELSE Failure("LLM response is valid JSON but lacks the required keys")

\* evaluate.py, parse_matching_sections
parse_matching_sections(matching_sections, key, reply) ==
    IF matching_sections = <<>>
    THEN Failure("No matching sections found in the analysis results")
    ELSE IF ~key THEN Failure("GOOGLE_API_KEY environment variable not set")
    ELSE IF reply.kind = "timeout" THEN Failure("LLM response timed out after 120 seconds")
    ELSE IF reply.kind = "raised" THEN Failure("Error processing sections")
    ELSE IF ~reply.ends_brace THEN Failure("LLM returned incomplete JSON response")
    ELSE IF reply.json = "invalid" THEN Failure("Failed to parse LLM response as JSON.")
    ELSE Validated(reply)

\* main.py line 111: parse_evaluation_components
Evaluate ==
    /\ pc = "evaluate"
    /\ \E reply \in Replies :
         components_results' =
             parse_matching_sections(analysis_results.matching_sections, api_key, reply)
    /\ called' = IF analysis_results.matching_sections # <<>> /\ api_key
                 THEN called \cup {"extractor"} ELSE called
    /\ pc' = "returned"
    /\ UNCHANGED <<parserVars, content, api_key, summary_results, tasks, results, finished,
                   analysis_results>>

NextDown == Summarize \/ FilterStart \/ TaskComplete \/ Gather \/ AttachSummary \/ Evaluate

SpecDown == InitDown /\ [][NextDown]_vars

(***************************************************************************)
(* Vocabulary of the properties.                                           *)
(***************************************************************************)
\* (p1, y1) < (p2, y2), page first
LexLess(p1, y1, p2, y2) == p1 < p2 \/ (p1 = p2 /\ y1 < y2)

IsPrefix(a, b) == Len(a) <= Len(b) /\ SubSeq(b, 1, Len(a)) = a

\* the sections that flat block j is a member of
Owners(j) == {idx \in DOMAIN members : \E m \in DOMAIN members[idx] : members[idx][m] = j}

\* heading idx's originating block is among the members of section idx
OwnBlockIncluded(idx) ==
    \E m \in DOMAIN members[idx] : flat_blocks[members[idx][m]].id = headings[idx].id

DocBlocks == UNION {Range(doc[p]) : p \in DOMAIN doc}

NumBlocks == SumSeq([p \in DOMAIN doc |-> Len(doc[p])])

\* non-empty, not numbered, not upper-case, not a short title-case text
PlainText(t) ==
    /\ t # <<>>
    /\ ~NumHeadingMatch(t)
    /\ ~IsUpper(t)
    /\ ~(WordCount(t) <= 5 /\ IsTitle(t))

\* every span has size 10 and every block's trimmed text is plain
PlainSingleSizeDoc ==
    \A b \in DocBlocks :
        /\ \A i \in DOMAIN BlockSpans(b) : BlockSpans(b)[i].size = 10
        /\ PlainText(BlockText(BlockSpans(b)))

\* the gap below size s in the set D of distinct sizes (s is not the smallest)
GapBelow(D, s) == s - SetMax({x \in D : x < s})

\* the sizes above the largest gap, the topmost such gap winning ties
AboveLargestGap(D) ==
    LET upper == {s \in D : \E x \in D : x < s}
        widest == {s \in upper : \A u \in upper : GapBelow(D, u) <= GapBelow(D, s)}
    IN  {x \in D : x >= SetMax(widest)}

(***************************************************************************)
(* C1: on the two-page scenario document without heading_font_count, the   *)
(* heading-sized set is {16} and the content is exactly the two sections   *)
(* "1. Introduction" and "2. Pricing", each body being the heading line,   *)
(* a line break and the body line.                                         *)
(***************************************************************************)
C1_Scenario ==
    (doc = ScenarioDoc /\ hfc = {}) =>
        /\ pc \in {"force", "detect", "flatten", "group", "done"} => heading_sizes = {16}
        /\ pc = "done" =>
             content = << [section |-> TxtIntroduction,
                           text |-> TxtIntroduction \o <<"\n">> \o TxtIntroBody],
                          [section |-> TxtPricing,
                           text |-> TxtPricing \o <<"\n">> \o TxtPricingBody] >>

C1_Witness == doc = ScenarioDoc /\ hfc = {} /\ pc = "done" /\ Len(content) = 2

(***************************************************************************)
(* C2 as stated: a document whose spans all have size 10 and whose blocks  *)
(* all have plain text yields an empty content list.                       *)
(***************************************************************************)
C2_Original == (pc = "done" /\ PlainSingleSizeDoc) => content = <<>>

(***************************************************************************)
(* C2 amended: in such a document the single size 10 is heading-sized, so  *)
(* every block is a heading candidate and the content holds one section    *)
(* per block, titled with that block's trimmed text; it is empty only when *)
(* the document has no block.                                              *)
(***************************************************************************)
C2_OneSectionPerBlock ==
    (pc = "done" /\ PlainSingleSizeDoc) =>
        /\ Len(content) = NumBlocks
        /\ \A i \in DOMAIN content :
             \E b \in DocBlocks : content[i].section = BlockText(BlockSpans(b))

C2_Witness == pc = "done" /\ PlainSingleSizeDoc /\ NumBlocks >= 2 /\ Len(content) >= 2

(***************************************************************************)
(* C3: the block that produced a heading candidate is a member of the      *)
(* section titled by that candidate, also when two candidates share        *)
(* (page, y0).                                                             *)
(***************************************************************************)
C3_HeadingInOwnSection ==
    pc = "done" => \A idx \in DOMAIN headings : OwnBlockIncluded(idx)

(***************************************************************************)
(* C4 as stated: with at least one heading candidate, every collected      *)
(* block is a member of exactly one section.                               *)
(***************************************************************************)
C4_Original ==
    (pc = "done" /\ headings # <<>>) =>
        \A j \in DOMAIN flat_blocks : Cardinality(Owners(j)) = 1

(***************************************************************************)
(* C4 amended: with at least one heading candidate, every collected block  *)
(* at or after the first heading's (page, y0) is a member of exactly one   *)
(* section, and every collected block before it is a member of none.       *)
(***************************************************************************)
C4_CoverageFromFirstHeading ==
    (pc = "done" /\ headings # <<>>) =>
        \A j \in DOMAIN flat_blocks :
            IF LexLess(flat_blocks[j].page, flat_blocks[j].y0,
                       headings[1].page, headings[1].y0)
            THEN Owners(j) = {}
            ELSE Cardinality(Owners(j)) = 1

C4_Witness ==
    /\ pc = "done"
    /\ headings # <<>>
    /\ \E j \in DOMAIN flat_blocks : Owners(j) = {}
    /\ \E j \in DOMAIN flat_blocks : Owners(j) # {}

(***************************************************************************)
(* C5: no collected block is a member of two different sections, and no    *)
(* section lists a block twice.                                            *)
(***************************************************************************)
C5_AtMostOneSection ==
    pc = "done" =>
        /\ \A j \in DOMAIN flat_blocks : Cardinality(Owners(j)) <= 1
        /\ \A idx \in DOMAIN members : \A m, n \in DOMAIN members[idx] :
             members[idx][m] = members[idx][n] => m = n

C5_Witness ==
    /\ pc = "done"
    /\ Len(headings) >= 2
    /\ \E idx \in DOMAIN members : Len(members[idx]) >= 2

(***************************************************************************)
(* C6 as stated: the owning headings of consecutive sections are strictly  *)
(* increasing in (page, y0).                                               *)
(***************************************************************************)
C6_Original ==
    pc = "done" =>
        \A i \in 1 .. Len(content) - 1 :
            LexLess(headings[i].page, headings[i].y0, headings[i + 1].page, headings[i + 1].y0)

(***************************************************************************)
(* C6 amended: the owning heading of section i+1 is strictly greater in    *)
(* (page, y0) than that of section i, except when the two headings have    *)
(* the same (page, y0), and then section i has no member block.            *)
(***************************************************************************)
C6_StrictUnlessTied ==
    pc = "done" =>
        \A i \in 1 .. Len(content) - 1 :
            \/ LexLess(headings[i].page, headings[i].y0,
                       headings[i + 1].page, headings[i + 1].y0)
            \/ /\ headings[i].page = headings[i + 1].page
               /\ headings[i].y0 = headings[i + 1].y0
               /\ members[i] = <<>>

C6_Witness ==
    /\ pc = "done"
    /\ Len(content) >= 3
    /\ \E i \in 1 .. Len(content) - 1 :
         headings[i].page = headings[i + 1].page /\ headings[i].y0 = headings[i + 1].y0
    /\ \E i \in 1 .. Len(content) - 1 :
         LexLess(headings[i].page, headings[i].y0, headings[i + 1].page, headings[i + 1].y0)

(***************************************************************************)
(* C7: the owning headings of consecutive sections never decrease in       *)
(* (page, y0), page compared first.                                        *)
(***************************************************************************)
C7_NonDecreasing ==
    pc = "done" =>
        \A i \in 1 .. Len(content) - 1 :
            ~LexLess(headings[i + 1].page, headings[i + 1].y0, headings[i].page, headings[i].y0)

C7_Witness ==
    /\ pc = "done"
    /\ \E i \in 1 .. Len(content) - 1 :
         headings[i].page < headings[i + 1].page /\ headings[i].y0 > headings[i + 1].y0

(***************************************************************************)
(* C8: every section's body text starts with the section's title, heading  *)
(* blocks of several lines included.                                       *)
(***************************************************************************)
C8_TitlePrefixOfBody ==
    pc = "done" => \A i \in DOMAIN content : IsPrefix(content[i].section, content[i].text)

(***************************************************************************)
(* C9: with at least two distinct sizes, infer_heading_sizes returns the   *)
(* distinct sizes from the largest down to the size just above the largest *)
(* gap, the gap nearest the largest sizes winning ties; {20, 18, 12, 11,   *)
(* 10} gives {20, 18}.                                                     *)
(***************************************************************************)
C9_LargestGap ==
    (pc = "force" /\ Cardinality(Range(font_sizes)) >= 2) =>
        /\ heading_sizes = AboveLargestGap(Range(font_sizes))
        /\ Range(font_sizes) = {20, 18, 12, 11, 10} => heading_sizes = {20, 18}

C9_Witness ==
    /\ pc = "force"
    /\ Range(font_sizes) = {10, 11, 12}
    /\ heading_sizes = {12}

(***************************************************************************)
(* C10: with fewer than two distinct sizes, infer_heading_sizes returns    *)
(* the set of distinct input values: {s} when every size is s, the empty   *)
(* set for an empty input.                                                 *)
(***************************************************************************)
C10_TrivialCase ==
    (pc = "force" /\ Cardinality(Range(font_sizes)) < 2) =>
        /\ heading_sizes = Range(font_sizes)
        /\ font_sizes = <<>> => heading_sizes = {}
        /\ \A s \in Range(font_sizes) : heading_sizes = {s}

C10_Witness ==
    /\ pc = "force"
    /\ Len(font_sizes) >= 2
    /\ Range(font_sizes) = {12}
    /\ heading_sizes = {12}


\* the result of the largest-gap rule on the set D of distinct sizes
GapResult(D) == IF Cardinality(D) < 2 THEN D ELSE AboveLargestGap(D)

\* the k largest elements of D, all of D when it has fewer than k
Largest(D, k) == {s \in D : Cardinality({x \in D : x > s}) < k}

(***************************************************************************)
(* C11: the heading-sized set used for classification is the largest-gap   *)
(* result united with the K largest distinct profiled sizes (all of them   *)
(* when fewer than K exist); with K = 3 and a largest-gap result of one    *)
(* size it contains the three largest distinct sizes; with K = 0 or K      *)
(* absent it is the largest-gap result.                                    *)
(***************************************************************************)
C11_ForcedFloor ==
    pc = "detect" =>
        LET D == Range(font_sizes)
        IN  /\ \A k \in hfc : heading_sizes = GapResult(D) \cup Largest(D, k)
            /\ (hfc = {} \/ hfc = {0}) => heading_sizes = GapResult(D)
            /\ (hfc = {3} /\ Cardinality(GapResult(D)) = 1 /\ Cardinality(D) >= 3) =>
                 \E a, b, c \in heading_sizes :
                     /\ a > b /\ b > c
                     /\ \A x \in D : x > c => x \in {a, b}

C11_Witness ==
    /\ pc = "detect"
    /\ hfc = {3}
    /\ Cardinality(Range(font_sizes)) >= 4
    /\ Cardinality(GapResult(Range(font_sizes))) = 1
    /\ Cardinality(heading_sizes) = 3


\* the blocks step 1 collected, as <<page, index>> into pages_blocks
CollectedIds ==
    UNION {{<<p, i>> : i \in DOMAIN pages_blocks[p][2]} : p \in DOMAIN pages_blocks}

BlockAt(id) == pages_blocks[id[1]][2][id[2]]

HeadingIds == {headings[h].id : h \in DOMAIN headings}

\* digits, optionally further digits and periods, then white space
NumberedPattern(t) ==
    \E k \in 1 .. Len(t) - 1 :
        /\ t[1] \in Digits
        /\ \A j \in 2 .. k : t[j] \in Digits \cup {"."}
        /\ t[k + 1] \in Whitespace

\* the trimmed concatenated span text of a block
TrimmedText(b) == BlockText(BlockSpans(b))

(***************************************************************************)
(* C12: a collected block is a heading candidate if and only if its        *)
(* trimmed text is non-empty and its largest span size is heading-sized,   *)
(* or its text is numbered, or all upper-case, or a title-case text of at  *)
(* most five words; "1.2 Scope of Work" is a candidate at any size, and a  *)
(* block with empty trimmed text never is.                                 *)
(***************************************************************************)
C12_HeadingRule ==
    pc \in {"flatten", "group", "done"} =>
        \A id \in CollectedIds :
            LET b == BlockAt(id)
                t == TrimmedText(b)
            IN  /\ id \in HeadingIds <=>
                     /\ t # <<>>
                     /\ \/ MaxSize(BlockSpans(b)) \in heading_sizes
                        \/ NumberedPattern(t)
                        \/ IsUpper(t)
                        \/ (WordCount(t) <= 5 /\ IsTitle(t))
                /\ t = TxtScope => id \in HeadingIds
                /\ t = <<>> => id \notin HeadingIds

C12_Witness ==
    /\ pc = "done"
    /\ doc = << <<BigBlock, ProbeBlock(TxtScope, 10)>> >>
    /\ heading_sizes = {16}
    /\ \E h \in DOMAIN headings : headings[h].text = TxtScope


\* how many entries of the list s equal x
Count(s, x) == Cardinality({i \in DOMAIN s : s[i] = x})

\* the lines of the collected blocks that hold at least one span, as
\* <<page, block index, line index>>
CollectedLines ==
    UNION {{<<id[1], id[2], l>> : l \in {k \in DOMAIN BlockAt(id).lines :
                                             BlockAt(id).lines[k].spans # <<>>}}
           : id \in CollectedIds}

LineAt(ln) == BlockAt(<<ln[1], ln[2]>>).lines[ln[3]]

\* the spans of the collected blocks, as <<page, block index, line index, span index>>
CollectedSpans ==
    UNION {{<<ln[1], ln[2], ln[3], k>> : k \in DOMAIN LineAt(ln).spans} : ln \in CollectedLines}

SpanAt(sp) == LineAt(<<sp[1], sp[2], sp[3]>>).spans[sp[4]]

AllSizes == {SpanAt(sp).size : sp \in CollectedSpans}

(***************************************************************************)
(* C13 as stated: the profiled multiset holds the font size of every span  *)
(* of every collected block, one entry per span.                           *)
(***************************************************************************)
C13_Original ==
    pc # "collect" =>
        \A s \in AllSizes \cup Range(font_sizes) :
            Count(font_sizes, s) = Cardinality({sp \in CollectedSpans : SpanAt(sp).size = s})

(***************************************************************************)
(* C13 amended: the profiled multiset holds, for every line with at least  *)
(* one span of every collected block, the largest span size of that line,  *)
(* one entry per line; a size that occurs only on spans that are not the   *)
(* largest of their line is not part of the profile.  Stated on the state  *)
(* in which the profile is handed to infer_heading_sizes; no later stage   *)
(* writes font_sizes or pages_blocks.                                      *)
(***************************************************************************)
C13_OneEntryPerLine ==
    pc = "infer" =>
        LET lines == CollectedLines
            spans == CollectedSpans
            sizes == AllSizes
        IN  /\ \A s \in sizes \cup Range(font_sizes) :
                 Count(font_sizes, s) =
                   Cardinality({ln \in lines :
                                  /\ \E k \in DOMAIN LineAt(ln).spans : LineAt(ln).spans[k].size = s
                                  /\ \A k \in DOMAIN LineAt(ln).spans : LineAt(ln).spans[k].size <= s})
            /\ \A s \in sizes :
                 (\A sp \in spans : SpanAt(sp).size = s =>
                      \E k \in DOMAIN LineAt(<<sp[1], sp[2], sp[3]>>).spans :
                          LineAt(<<sp[1], sp[2], sp[3]>>).spans[k].size > s)
                 => s \notin Range(font_sizes)

C13_Witness ==
    /\ pc = "done"
    /\ \E sp \in CollectedSpans : SpanAt(sp).size \notin Range(font_sizes)
    /\ Len(font_sizes) >= 2


\* entry i of a sorted list comes from a block collected before that of entry j
CollectedBefore(a, b) == a.id[1] < b.id[1] \/ (a.id[1] = b.id[1] /\ a.id[2] < b.id[2])

\* s is ascending in (page, y0) and entries of equal (page, y0) are in collection order
StablySorted(s) ==
    \A i, j \in DOMAIN s :
        i < j =>
            /\ ~LexLess(s[j].page, s[j].y0, s[i].page, s[i].y0)
            /\ (s[i].page = s[j].page /\ s[i].y0 = s[j].y0) => CollectedBefore(s[i], s[j])

(***************************************************************************)
(* C14: the heading list and the flattened block list are both ascending   *)
(* in (page, y0), page first; entries of equal (page, y0) keep collection  *)
(* order (page order, then block order within the page); and every heading *)
(* block is also in the block list.                                        *)
(***************************************************************************)
C14_StableOrder ==
    pc \in {"group", "done"} =>
        /\ StablySorted(headings)
        /\ StablySorted(flat_blocks)
        /\ \A h \in DOMAIN headings : \E j \in DOMAIN flat_blocks :
             /\ flat_blocks[j].id = headings[h].id
             /\ flat_blocks[j].page = headings[h].page
             /\ flat_blocks[j].y0 = headings[h].y0

C14_Witness ==
    /\ pc = "done"
    /\ \E i \in 1 .. Len(headings) - 1 :
         headings[i].page = headings[i + 1].page /\ headings[i].y0 = headings[i + 1].y0
    /\ \E i \in 1 .. Len(flat_blocks) - 1 :
         /\ flat_blocks[i].page = flat_blocks[i + 1].page
         /\ flat_blocks[i].y0 = flat_blocks[i + 1].y0
         /\ flat_blocks[i + 1].id \notin HeadingIds


\* the document holds no span: no page, no text block, or only lines without spans
NoSpansInDoc ==
    \A p \in DOMAIN doc : \A i \in DOMAIN doc[p] :
        doc[p][i].type = 0 => BlockSpans(doc[p][i]) = <<>>

(***************************************************************************)
(* C15: on a document from which zero spans are collected the extractor    *)
(* runs every stage to the end and returns an empty content list: the      *)
(* profiled sizes, the heading-sized set and the heading list are empty.   *)
(***************************************************************************)
C15_EmptyDocument ==
    NoSpansInDoc =>
        /\ pc # "done" => ENABLED Next
        /\ font_sizes = <<>>
        /\ heading_sizes = {}
        /\ headings = <<>>
        /\ content = <<>>

C15_Witness ==
    /\ pc = "done"
    /\ NoSpansInDoc
    /\ NoSpanBlock \in DocBlocks
    /\ ImageBlock \in DocBlocks
    /\ hfc = {1}
    /\ content = <<>>


(***************************************************************************)
(* C19: the content list has exactly one section per heading candidate, in *)
(* sorted heading order, titled with the candidate's text; a heading whose *)
(* successor in the sorted list has the same (page, y0) still yields a     *)
(* section, whose body is the empty string.                                *)
(***************************************************************************)
Candidates ==
    {id \in CollectedIds :
        /\ TrimmedText(BlockAt(id)) # <<>>
        /\ is_heading(MaxSize(BlockSpans(BlockAt(id))), TrimmedText(BlockAt(id)),
                      heading_sizes)}

Tied(i) ==
    /\ i < Len(headings)
    /\ headings[i].page = headings[i + 1].page
    /\ headings[i].y0 = headings[i + 1].y0

C19_OneSectionPerCandidate ==
    pc = "done" =>
        /\ Len(content) = Cardinality(Candidates)
        /\ Len(content) = Len(headings)
        /\ HeadingIds = Candidates
        /\ \A i \in DOMAIN content :
             /\ content[i].section = TrimmedText(BlockAt(headings[i].id))
             /\ i < Len(content) => ~PosLess(headings[i + 1], headings[i])
             /\ Tied(i) => content[i].text = <<>>

\* two candidates at the same place, the first with an empty body and the
\* second with its own text in its body
C19_Witness ==
    /\ pc = "done"
    /\ \E i \in DOMAIN content :
         /\ Tied(i)
         /\ content[i].section # <<>>
         /\ content[i].text = <<>>
         /\ content[i + 1].text # <<>>

(***************************************************************************)
(* C20: the heading-sized set contains the largest profiled size whenever  *)
(* a size was profiled; so every block with non-empty trimmed text whose   *)
(* largest span size is the document's largest font size is a heading      *)
(* candidate, and a document with such a block never yields an empty       *)
(* content list.                                                           *)
(***************************************************************************)
\* the blocks with non-empty trimmed text whose largest span size is the
\* largest span size of the document
TopBlocks ==
    LET ids == CollectedIds
        \* the largest span size of each block, 0 for a block without span
        size == [id \in ids |-> IF BlockSpans(BlockAt(id)) = <<>> THEN 0
                                ELSE MaxSize(BlockSpans(BlockAt(id)))]
    IN  {id \in ids :
            /\ size[id] > 0
            /\ \A other \in ids : size[other] <= size[id]
            /\ TrimmedText(BlockAt(id)) # <<>>}

C20_LargestSizeIsHeading ==
    /\ (pc \in {"force", "detect", "flatten", "group", "done"} /\ font_sizes # <<>>) =>
           \E m \in heading_sizes :
               /\ \E i \in DOMAIN font_sizes : font_sizes[i] = m
               /\ \A i \in DOMAIN font_sizes : font_sizes[i] <= m
    /\ pc = "done" =>
           /\ \A id \in TopBlocks : id \in HeadingIds /\ content # <<>>
           /\ (content = <<>> /\ font_sizes # <<>>) =>
                  \A id \in CollectedIds :
                      (BlockSpans(BlockAt(id)) # <<>>
                       /\ MaxSize(BlockSpans(BlockAt(id))) = SetMax(Range(font_sizes)))
                          => TrimmedText(BlockAt(id)) = <<>>

\* a block at the largest of two sizes that is a candidate by its size alone
C20_Witness ==
    /\ pc = "done"
    /\ Cardinality(AllSizes) >= 2
    /\ \E id \in TopBlocks :
         ~is_heading_text_only(0, TrimmedText(BlockAt(id)), {})
    /\ content # <<>>

(***************************************************************************)
(* The downstream collaborators.                                           *)
(***************************************************************************)
\* C16: when the parser output has an empty content list, the relevance
\* filter, the summarizer and the rule extractor each stop without calling
\* the model service and report a terminal outcome that is not an error
\* outcome: no status "error" and no reported failure.
C16_NothingToAnalyze ==
    (content = <<>> /\ pc = "returned") =>
        /\ called = {}
        /\ analysis_results.status # "error"
        /\ summary_results.success
        /\ components_results.success

\* the part of C16 that the code keeps: no collaborator calls the model
C16_NoCallOnEmpty == (content = <<>> /\ pc = "returned") => called = {}

\* C17: for every non-empty content list, whatever order the per-section
\* model calls complete in and whichever of them fail, the filter returns
\* all_sections with one result per input section in input order (a failed
\* call gives meets_criteria false for that section only), matching_sections
\* as the order-preserving subsequence of the results that meet the
\* criteria, total_sections as the number of input sections and
\* matching_count as the length of matching_sections.
Analysed == pc \in {"attach", "evaluate", "returned"} /\ tasks # <<>>

Meets(r) == r.meets_criteria

C17_GatherKeepsInputOrder ==
    Analysed =>
        /\ analysis_results.status = "success"
        /\ Len(analysis_results.all_sections) = Len(content)
        /\ \A i \in DOMAIN content :
             /\ analysis_results.all_sections[i] = results[i]
             /\ results[i].section = content[i].section
             /\ results[i].content = content[i].text
             /\ results[i].analysis \in {"Error: raised", "Error: no key", "no"}
                  => ~results[i].meets_criteria
             /\ results[i].analysis = "yes" => results[i].meets_criteria
        /\ analysis_results.matching_sections = SelectSeq(analysis_results.all_sections, Meets)
        /\ analysis_results.total_sections = Len(content)
        /\ analysis_results.matching_count = Len(analysis_results.matching_sections)

\* three sections whose calls completed last to first, the second one
\* failing and the other two meeting the criteria
C17_Witness ==
    /\ pc = "attach"
    /\ Len(content) = 3
    /\ content[1] # content[3]
    /\ finished = <<3, 2, 1>>
    /\ results[2].analysis = "Error: raised"
    /\ results[1].meets_criteria
    /\ results[3].meets_criteria
    /\ Len(analysis_results.matching_sections) = 2

\* C18: for every outcome of the model call (valid response, truncated
\* text, invalid JSON, wrong shape, both parts empty, timeout, exception,
\* missing API key, no matching sections) parse_evaluation_components
\* returns a result, and success is true only if data is an object holding
\* a variables mapping and a rules list that are not both empty; in every
\* other outcome success is false and data is None.
C18_SuccessOnlyWithData ==
    /\ pc = "evaluate" => ENABLED Evaluate
    /\ pc = "returned" =>
          IF components_results.success
          THEN /\ components_results.data.kind = "object"
               /\ components_results.data.variables \in {"dict_empty", "dict_nonempty"}
               /\ components_results.data.rules \in {"list_empty", "list_nonempty"}
               /\ ~(components_results.data.variables = "dict_empty"
                    /\ components_results.data.rules = "list_empty")
          ELSE components_results.data = None

\* a success with variables and no rule
C18_Witness ==
    /\ pc = "returned"
    /\ components_results.success
    /\ components_results.data.variables = "dict_nonempty"
    /\ components_results.data.rules = "list_empty"

\* the call refused for the missing key, with a matching section at hand
C18_WitnessNoKey ==
    /\ pc = "returned"
    /\ ~api_key
    /\ analysis_results.matching_sections # <<>>
    /\ components_results = Failure("GOOGLE_API_KEY environment variable not set")

====
